---- MODULE Spec2Model ----
(***************************************************************************)
(* score-weaver-hub: the leaderboard schema (tables, role check, signup    *)
(* trigger, rank trigger, row-level security), the auth/admin gate page,   *)
(* the admin panel and the leaderboard view.                               *)
(*                                                                         *)
(* Users are 1..NumUsers, NoUser (0) is the anonymous / null identity.     *)
(* Member ids are 1..MaxMembers.  A stored rank of 0 is SQL NULL.          *)
(***************************************************************************)
EXTENDS Integers, Sequences, FiniteSets, TLC

\* ---------------------------------------------------------------- bounds
NumUsers == 2
MaxMembers == 4
DbRows == 1
MaxScore == 2
MaxStoredRank == 1
MaxStackDepth == 3
MaxTasks == 2
MaxStrLen == 2
MaxHandlers == 2

NoUser == 0
Users == 1..NumUsers
Identities == Users \cup {NoUser}
Roles == {"admin", "user"}
MemberIds == 1..MaxMembers
Scores == 1..MaxScore
\* profiles.full_name: the email (the signup default) or a name the user gave
Names == {"email", "name"}

VARIABLES
  \* hosted database
  auth_users,            \* auth.users: set of user ids
  profiles,              \* public.profiles: set of [id, full_name, role]
  user_roles,            \* public.user_roles: [Users \X Roles -> number of rows]
  leaderboard_members,   \* public.leaderboard_members: set of [id, score, created_at, rank]
  lastStmt,              \* the last statement the database executed, and its outcome
  \* Admin page (auth/admin gate)
  session,               \* the auth client's current session user
  admin_user, admin_isAdmin, admin_loading,
  tasks,                 \* asynchronous calls of the gate that are in flight
  lastAuthEvent,         \* the event of the last session-change notification
  admin_toast,           \* title of the notification the gate showed last
  \* AdminPanel
  panel_members, panel_loading, newMember, editingMember, isAddDialogOpen,
  handlers,              \* the panel's asynchronous functions that are awaiting a call
  panel_toast,           \* titles of the notifications the panel's last notifying step showed
  peer,                  \* the handler in flight on a second admin's AdminPanel
  \* Leaderboard view
  lb_members, lb_loading,
  lb_data                \* what the view's last fetch returned

dbVars == <<auth_users, profiles, user_roles, leaderboard_members, lastStmt>>
gateVars == <<session, admin_user, admin_isAdmin, admin_loading, tasks, lastAuthEvent,
              admin_toast>>
panelVars == <<panel_members, panel_loading, newMember, editingMember, isAddDialogOpen,
               handlers, panel_toast>>
viewVars == <<lb_members, lb_loading, lb_data>>
peerVars == <<peer>>
vars == <<dbVars, gateVars, panelVars, viewVars, peerVars>>

\* ------------------------------------------------------------ the schema

\* has_role(_user_id, _role)
has_role(roles, uid, role) ==
  uid \in Users /\ roles[<<uid, role>>] > 0

\* the policy written against the wrong role
AdminsCanManageAllUserRoles_anyRole(roles, uid) ==
  uid # NoUser /\ has_role(roles, uid, "user")

\* policy "Admins can manage all user roles": FOR ALL TO authenticated
AdminsCanManageAllUserRoles(roles, uid) ==
  uid # NoUser /\ has_role(roles, uid, "admin")

\* the policy written as USING (true)
UsersCanViewTheirOwnRoles_all(uid, row_user_id) ==
  uid # NoUser

\* policy "Users can view their own roles": FOR SELECT TO authenticated
UsersCanViewTheirOwnRoles(uid, row_user_id) ==
  uid # NoUser /\ uid = row_user_id

\* policy "Everyone can view leaderboard": FOR SELECT TO authenticated
EveryoneCanViewLeaderboard(uid) ==
  uid # NoUser

\* policy "Admins can manage leaderboard": FOR ALL TO authenticated
AdminsCanManageLeaderboard(roles, uid) ==
  uid # NoUser /\ has_role(roles, uid, "admin")

\* the rows of user_roles a SELECT by uid returns (permissive policies are OR-ed)
SelectUserRoles(roles, uid) ==
  { ur \in Users \X Roles :
      /\ roles[ur] > 0
      /\ (AdminsCanManageAllUserRoles(roles, uid) \/ UsersCanViewTheirOwnRoles(uid, ur[1])) }

\* ROW_NUMBER() OVER (ORDER BY score DESC, created_at ASC)
RowNumber(t, r) ==
  1 + Cardinality({ q \in t : \/ q.score > r.score
                              \/ (q.score = r.score /\ q.created_at < r.created_at) })

\* the UPDATE in the body of update_leaderboard_ranks
RankUpdate(t) ==
  { [r EXCEPT !.rank = RowNumber(t, r)] : r \in t }

\* update_leaderboard_ranks as fired by update_ranks_on_score_change
\* (AFTER INSERT OR UPDATE OR DELETE, FOR EACH STATEMENT).  The function's own
\* UPDATE is a statement on leaderboard_members, so the trigger fires for it
\* too, one level deeper; the engine aborts the statement when the nesting
\* passes its stack limit.
RECURSIVE update_leaderboard_ranks(_, _)
update_leaderboard_ranks(t, depth) ==
  IF depth > MaxStackDepth
    THEN [ok |-> FALSE, table |-> t, fired |-> depth - 1]
    ELSE update_leaderboard_ranks(RankUpdate(t), depth + 1)

MaxOf(S) == IF S = {} THEN 0 ELSE CHOOSE x \in S : \A y \in S : y <= x

\* the row changes of one statement on leaderboard_members
ApplyMemberOp(t, op) ==
  CASE op.kind = "insert" ->
         t \cup {[id |-> op.id, score |-> op.score,
                  created_at |-> 1 + MaxOf({r.created_at : r \in t}),
                  rank |-> op.rank]}
    [] op.kind = "update" ->
         { IF r.id = op.id THEN [r EXCEPT !.score = op.score] ELSE r : r \in t }
    [] op.kind = "rank" ->
         { IF r.id = op.id THEN [r EXCEPT !.rank = op.rank] ELSE r : r \in t }
    [] op.kind = "delete" ->
         { r \in t : r.id # op.id }

\* one INSERT / UPDATE / DELETE statement on leaderboard_members issued by uid:
\* row-level security, the row changes, then the statement-level trigger;
\* an aborted statement leaves the table as it was.
ExecMemberStmt(t, roles, uid, op) ==
  LET allowed == AdminsCanManageLeaderboard(roles, uid)
      rlsError == op.kind = "insert" /\ ~allowed
      t1 == IF allowed THEN ApplyMemberOp(t, op) ELSE t
      trig == update_leaderboard_ranks(t1, 1)
  IN IF rlsError
       THEN [committed |-> FALSE, table |-> t, allowed |-> FALSE, fired |-> 0]
       ELSE [committed |-> trig.ok,
             table |-> IF trig.ok THEN trig.table ELSE t,
             allowed |-> allowed, fired |-> trig.fired]

\* the statements a client can send for leaderboard_members
\* (gen_random_uuid() is the first id not in use)
MemberOps(t) ==
  { [kind |-> "insert", id |-> 1 + MaxOf({r.id : r \in t}), score |-> s,
     rank |-> Cardinality(t) + 1] : s \in Scores }
  \cup { [kind |-> "update", id |-> r.id, score |-> s] : r \in t, s \in Scores }
  \cup { [kind |-> "rank", id |-> r.id, rank |-> k] : r \in t, k \in 1..Cardinality(t) }
  \cup { [kind |-> "delete", id |-> r.id] : r \in t }

NoStmt == [tbl |-> "none", by |-> NoUser, op |-> "none", allowed |-> FALSE,
           committed |-> FALSE, fired |-> 0, rows |-> {}]

\* every table content: any subset of the ids, any score, any stored rank
TableOf(ids, sc, rk) ==
  { [id |-> i, score |-> sc[i], created_at |-> i, rank |-> rk[i]] : i \in ids }

AllTables ==
  { TableOf(ids, sc, rk) :
      ids \in SUBSET MemberIds, sc \in [MemberIds -> Scores],
      rk \in [MemberIds -> 0..MaxStoredRank] }

\* the tables the database and the panel start from: empty, or rows
\* 1..DbRows with scores ascending with the id and ranks never written
DbTables ==
  { {}, TableOf(1..DbRows, [i \in MemberIds |-> IF i <= MaxScore THEN i ELSE MaxScore],
                [i \in MemberIds |-> 0]) }

\* the trigger writing the profile's role into user_roles as 'admin'
handle_new_user_admin(prof, roles, new_id, meta_name) ==
  [profiles |-> prof \cup {[id |-> new_id, full_name |-> meta_name, role |-> "user"]},
   user_roles |-> [roles EXCEPT ![<<new_id, "admin">>] = @ + 1]]

\* handle_new_user(), fired by on_auth_user_created (AFTER INSERT ON auth.users);
\* meta_name is COALESCE(raw_user_meta_data ->> 'full_name', email)
handle_new_user(prof, roles, new_id, meta_name) ==
  [profiles |-> prof \cup {[id |-> new_id, full_name |-> meta_name, role |-> "user"]},
   user_roles |-> [roles EXCEPT ![<<new_id, "user">>] = @ + 1]]

\* ------------------------------------------------- database operations

\* a new row in auth.users (signup) and its trigger, one transaction
Signup(u, meta_name) ==
  /\ u \in Users \ auth_users
  /\ LET h == handle_new_user(profiles, user_roles, u, meta_name)
     IN /\ auth_users' = auth_users \cup {u}
        /\ profiles' = h.profiles
        /\ user_roles' = h.user_roles
  /\ lastStmt' = [NoStmt EXCEPT !.tbl = "auth.users", !.by = u, !.op = "insert",
                                 !.allowed = TRUE, !.committed = TRUE]
  /\ UNCHANGED leaderboard_members

\* INSERT INTO user_roles (user_id, role) by uid
InsertUserRole(uid, target, role) ==
  LET allowed == AdminsCanManageAllUserRoles(user_roles, uid)
      ok == allowed /\ target \in auth_users /\ user_roles[<<target, role>>] = 0
  IN /\ user_roles' = IF ok THEN [user_roles EXCEPT ![<<target, role>>] = @ + 1]
                             ELSE user_roles
     /\ lastStmt' = [NoStmt EXCEPT !.tbl = "user_roles", !.by = uid, !.op = "insert",
                                    !.allowed = allowed, !.committed = ok]
     /\ UNCHANGED <<auth_users, profiles, leaderboard_members>>

\* DELETE FROM user_roles WHERE user_id = target AND role = role, by uid
DeleteUserRole(uid, target, role) ==
  LET allowed == AdminsCanManageAllUserRoles(user_roles, uid)
  IN /\ user_roles' = IF allowed THEN [user_roles EXCEPT ![<<target, role>>] = 0]
                                  ELSE user_roles
     /\ lastStmt' = [NoStmt EXCEPT !.tbl = "user_roles", !.by = uid, !.op = "delete",
                                    !.allowed = allowed, !.committed = TRUE]
     /\ UNCHANGED <<auth_users, profiles, leaderboard_members>>

\* UPDATE user_roles SET role = to WHERE user_id = target AND role = from, by uid
UpdateUserRole(uid, target, from, to) ==
  LET allowed == AdminsCanManageAllUserRoles(user_roles, uid)
      hit == allowed /\ user_roles[<<target, from>>] > 0
      ok == ~hit \/ from = to \/ user_roles[<<target, to>>] = 0
  IN /\ user_roles' = IF hit /\ ok /\ from # to
                        THEN [user_roles EXCEPT ![<<target, from>>] = 0,
                                                ![<<target, to>>] = @ + user_roles[<<target, from>>]]
                        ELSE user_roles
     /\ lastStmt' = [NoStmt EXCEPT !.tbl = "user_roles", !.by = uid, !.op = "update",
                                    !.allowed = allowed, !.committed = ok]
     /\ UNCHANGED <<auth_users, profiles, leaderboard_members>>

\* policy "Users can update own profile": FOR UPDATE TO authenticated; it
\* names no column and has no WITH CHECK, so the new row is held to the USING
\* expression only
UsersCanUpdateOwnProfile(uid, row_id) ==
  uid # NoUser /\ uid = row_id

\* UPDATE profiles SET full_name = name, role = role WHERE id = target, by uid
UpdateProfile(uid, target, name, role) ==
  /\ profiles' = { IF p.id = target /\ UsersCanUpdateOwnProfile(uid, p.id)
                     THEN [p EXCEPT !.full_name = name, !.role = role]
                     ELSE p : p \in profiles }
  /\ lastStmt' = [NoStmt EXCEPT !.tbl = "profiles", !.by = uid, !.op = "update",
                                 !.allowed = UsersCanUpdateOwnProfile(uid, target),
                                 !.committed = TRUE]
  /\ UNCHANGED <<auth_users, user_roles, leaderboard_members>>

\* SELECT * FROM user_roles, by uid
SelectRoles(uid) ==
  /\ lastStmt' = [NoStmt EXCEPT !.tbl = "user_roles", !.by = uid, !.op = "select",
                                 !.allowed = TRUE, !.committed = TRUE,
                                 !.rows = SelectUserRoles(user_roles, uid)]
  /\ UNCHANGED <<auth_users, profiles, user_roles, leaderboard_members>>

\* INSERT / UPDATE / DELETE on leaderboard_members, by uid
MemberStmt(uid, op) ==
  LET r == ExecMemberStmt(leaderboard_members, user_roles, uid, op)
  IN /\ leaderboard_members' = r.table
     /\ lastStmt' = [NoStmt EXCEPT !.tbl = "leaderboard_members", !.by = uid,
                                    !.op = op.kind, !.allowed = r.allowed,
                                    !.committed = r.committed, !.fired = r.fired]
     /\ UNCHANGED <<auth_users, profiles, user_roles>>

NoOp == [kind |-> "none"]
NoEdit == [id |-> 0, score |-> 0]
NoData == [ok |-> FALSE, rows |-> {}, list |-> <<>>]

\* the state of the other components, fixed while the database is exercised
IdleGate ==
  /\ session = NoUser /\ admin_user = NoUser /\ admin_isAdmin = FALSE
  /\ admin_loading = TRUE /\ tasks = {}
  /\ lastAuthEvent = "NONE" /\ admin_toast = "none"

IdlePanel ==
  /\ peer = NoOp
  /\ panel_members = <<>> /\ panel_loading = TRUE
  /\ newMember = [score |-> <<>>] /\ editingMember = NoEdit
  /\ isAddDialogOpen = FALSE /\ handlers = {}
  /\ panel_toast = <<>>

IdleView ==
  /\ lb_members = <<>> /\ lb_loading = TRUE /\ lb_data = NoData

\* a database as the migration and signups leave it: every user has a profile
\* and a 'user' role row; admin rows exist only where the owner granted them
InitDatabase(tables) ==
  /\ auth_users \in SUBSET Users
  /\ profiles = {[id |-> u, full_name |-> "email", role |-> "user"] : u \in auth_users}
  /\ \E admins \in SUBSET auth_users :
       user_roles = [ur \in Users \X Roles |->
                       IF ur[1] \in auth_users /\ (ur[2] = "user" \/ ur[1] \in admins)
                         THEN 1 ELSE 0]
  /\ leaderboard_members \in tables
  /\ lastStmt = NoStmt

InitDb == InitDatabase(DbTables) /\ IdleGate /\ IdlePanel /\ IdleView

NextDb ==
  \/ \E u \in Users : Signup(u, "email") /\ UNCHANGED <<gateVars, panelVars, viewVars, peerVars>>
  \/ \E uid \in Identities, t \in Users, r \in Roles :
       InsertUserRole(uid, t, r) /\ UNCHANGED <<gateVars, panelVars, viewVars, peerVars>>
  \/ \E uid \in Identities, t \in Users, r \in Roles :
       DeleteUserRole(uid, t, r) /\ UNCHANGED <<gateVars, panelVars, viewVars, peerVars>>
  \/ \E uid \in Identities, t \in Users, r1 \in Roles : \E r2 \in Roles \ {r1} :
       UpdateUserRole(uid, t, r1, r2) /\ UNCHANGED <<gateVars, panelVars, viewVars, peerVars>>
  \/ \E uid \in Identities :
       SelectRoles(uid) /\ UNCHANGED <<gateVars, panelVars, viewVars, peerVars>>
  \/ \E uid \in Identities, op \in MemberOps(leaderboard_members) :
       MemberStmt(uid, op) /\ UNCHANGED <<gateVars, panelVars, viewVars, peerVars>>

SpecDb == InitDb /\ [][NextDb]_vars

\* signups and profile updates alone
InitProfiles == InitDatabase({{}}) /\ IdleGate /\ IdlePanel /\ IdleView

NextProfiles ==
  \/ \E u \in Users, n \in Names :
       Signup(u, n) /\ UNCHANGED <<gateVars, panelVars, viewVars, peerVars>>
  \/ \E uid \in Identities, t \in Users, n \in Names, r \in Roles :
       UpdateProfile(uid, t, n, r) /\ UNCHANGED <<gateVars, panelVars, viewVars, peerVars>>

SpecProfiles == InitProfiles /\ [][NextProfiles]_vars

\* ------------------------------------------------- Admin (auth/admin gate)

\* what Admin renders
AdminRender ==
  IF admin_loading THEN "loading"
  ELSE IF admin_user = NoUser THEN "auth"
  ELSE IF ~admin_isAdmin THEN "denied"
  ELSE "panel"

\* from('user_roles').select('role').eq('user_id', id).eq('role', 'admin'),
\* sent with the token of jwt
AdminRowQuery(roles, jwt, id) ==
  { ur \in SelectUserRoles(roles, jwt) : ur[1] = id /\ ur[2] = "admin" }

\* the outcomes of that query with .single(): the row, no row (an error with
\* null data), an error returned, or a rejected promise
AdminQueryOutcomes(roles, jwt, id) ==
  (IF Cardinality(AdminRowQuery(roles, jwt, id)) = 1 THEN {"row"} ELSE {"norow"})
  \cup {"error", "throw"}

\* checkAdminStatus testing the error instead of the data
checkAdminStatus_failOpen(outcome) ==
  IF outcome = "throw" THEN FALSE
  ELSE IF outcome = "row" \/ outcome = "error" THEN TRUE
  ELSE FALSE

\* the value checkAdminStatus gives isAdmin for an outcome
checkAdminStatus(outcome) ==
  IF outcome = "throw" THEN FALSE      \* catch
  ELSE IF outcome = "row" THEN TRUE    \* if (data)
  ELSE FALSE

Spawn(t) == tasks \cup {t}

AdminQueryTask(kind, jwt, id) ==
  [kind |-> kind, at |-> "user_roles", jwt |-> jwt, currentUser |-> id]

GetUserTask(jwt) ==
  [kind |-> "checkAuthAndAdmin", at |-> "getUser", jwt |-> jwt, currentUser |-> NoUser]

\* onAuthStateChange callback, event SIGNED_IN
OnSignedIn(u) ==
  /\ admin_user' = u
  /\ lastAuthEvent' = "SIGNED_IN"

\* a sign-in that is not made through this page's form (another tab, a
\* restored or refreshed session): the SIGNED_IN notification alone
SignedIn(u) ==
  /\ u \in auth_users
  /\ Cardinality(tasks) < MaxTasks
  /\ session' = u
  /\ OnSignedIn(u)
  /\ tasks' = Spawn(AdminQueryTask("checkAdminStatus", u, u))
  /\ UNCHANGED <<admin_isAdmin, admin_loading, admin_toast>>

\* the auth form signs u in: SIGNED_IN is notified, then handleAuthSuccess
\* starts checkAuthAndAdmin
handleAuthSuccess(u) ==
  /\ AdminRender = "auth"
  /\ u \in auth_users
  /\ Cardinality(tasks) + 1 < MaxTasks
  /\ session' = u
  /\ OnSignedIn(u)
  /\ tasks' = Spawn(AdminQueryTask("checkAdminStatus", u, u)) \cup {GetUserTask(u)}
  /\ UNCHANGED <<admin_isAdmin, admin_loading, admin_toast>>

\* onAuthStateChange callback, event SIGNED_OUT
OnSignedOut ==
  /\ admin_user' = NoUser
  /\ admin_isAdmin' = FALSE
  /\ lastAuthEvent' = "SIGNED_OUT"

\* the session ends elsewhere (another tab, expiry): the notification alone
SignedOut ==
  /\ session # NoUser
  /\ session' = NoUser
  /\ OnSignedOut
  /\ UNCHANGED <<admin_loading, tasks, admin_toast>>

\* handleSignOut: the Sign Out button of the access-denied screen or the panel header
handleSignOut ==
  /\ AdminRender \in {"denied", "panel"}
  /\ session # NoUser
  /\ session' = NoUser
  /\ OnSignedOut
  /\ admin_toast' = "Signed out"
  /\ UNCHANGED <<admin_loading, tasks>>

\* checkAuthAndAdmin resumes with the answer of getUser(): the user of the
\* token it was sent with, or null when the call fails
GetUserResponse(t, resp) ==
  /\ t \in tasks /\ t.at = "getUser"
  /\ resp \in {t.jwt, NoUser}
  /\ admin_user' = resp
  /\ IF resp # NoUser
       THEN /\ tasks' = (tasks \ {t}) \cup {AdminQueryTask("checkAuthAndAdmin", session, resp)}
            /\ UNCHANGED admin_loading
       ELSE /\ tasks' = tasks \ {t}
            /\ admin_loading' = FALSE
  /\ UNCHANGED <<session, admin_isAdmin, lastAuthEvent, admin_toast>>

\* checkAdminStatus resumes with the answer of its user_roles query; when it
\* was awaited by checkAuthAndAdmin, that one's finally block runs too
AdminStatusResponse(t, outcome) ==
  /\ t \in tasks /\ t.at = "user_roles"
  /\ outcome \in AdminQueryOutcomes(user_roles, t.jwt, t.currentUser)
  /\ admin_isAdmin' = checkAdminStatus(outcome)
  /\ admin_toast' = IF checkAdminStatus(outcome) THEN admin_toast ELSE "Access Denied"
  /\ admin_loading' = IF t.kind = "checkAuthAndAdmin" THEN FALSE ELSE admin_loading
  /\ tasks' = tasks \ {t}
  /\ UNCHANGED <<session, admin_user, lastAuthEvent>>

\* Admin mounts: useEffect starts checkAuthAndAdmin and subscribes
InitGate ==
  /\ InitDatabase({{}}) /\ auth_users = Users
  /\ session \in auth_users \cup {NoUser}
  /\ admin_user = NoUser /\ admin_isAdmin = FALSE /\ admin_loading = TRUE
  /\ tasks = {GetUserTask(session)}
  /\ lastAuthEvent = "NONE" /\ admin_toast = "none"
  /\ IdlePanel /\ IdleView

NextGate ==
  \/ \E u \in Users : SignedIn(u) /\ UNCHANGED <<dbVars, panelVars, viewVars, peerVars>>
  \/ \E u \in Users : handleAuthSuccess(u) /\ UNCHANGED <<dbVars, panelVars, viewVars, peerVars>>
  \/ SignedOut /\ UNCHANGED <<dbVars, panelVars, viewVars, peerVars>>
  \/ handleSignOut /\ UNCHANGED <<dbVars, panelVars, viewVars, peerVars>>
  \/ \E t \in tasks, resp \in Identities :
       GetUserResponse(t, resp) /\ UNCHANGED <<dbVars, panelVars, viewVars, peerVars>>
  \/ \E t \in tasks, o \in {"row", "norow", "error", "throw"} :
       AdminStatusResponse(t, o) /\ UNCHANGED <<dbVars, panelVars, viewVars, peerVars>>

SpecGate == InitGate /\ [][NextGate]_vars

\* ------------------------------------------------------------ AdminPanel

Chars == {"1", "a", "-", "."}
IsDigit(c) == c \in {"0", "1", "2", "3", "4", "5", "6", "7", "8", "9"}
DigitValue(c) ==
  CASE c = "0" -> 0 [] c = "1" -> 1 [] c = "2" -> 2 [] c = "3" -> 3 [] c = "4" -> 4
    [] c = "5" -> 5 [] c = "6" -> 6 [] c = "7" -> 7 [] c = "8" -> 8 [] c = "9" -> 9

\* the texts a user can type into a field
Strings == UNION { [1..n -> Chars] : n \in 0..MaxStrLen }

\* a valid floating-point number: optional "-", digits with an optional
\* fraction, or a fraction alone
ValidFloatingPoint(s) ==
  LET body == IF Len(s) > 0 /\ s[1] = "-" THEN Tail(s) ELSE s
      dots == { i \in 1..Len(body) : body[i] = "." }
  IN /\ Len(body) > 0
     /\ \A i \in 1..Len(body) : IsDigit(body[i]) \/ body[i] = "."
     /\ Cardinality(dots) <= 1
     /\ \A d \in dots : d < Len(body)

\* e.target.value of <Input type="number">: text that is no valid number reads as ""
InputNumberValue(raw) ==
  IF ValidFloatingPoint(raw) THEN raw ELSE <<>>

RECURSIVE DigitsValue(_)
DigitsValue(ds) ==
  IF ds = <<>> THEN 0
  ELSE 10 * DigitsValue(SubSeq(ds, 1, Len(ds) - 1)) + DigitValue(ds[Len(ds)])

\* parseInt wrongly made total, as in parseInt(x) || 0
parseInt_orZero(str) ==
  LET neg == Len(str) > 0 /\ str[1] = "-"
      body == IF neg THEN Tail(str) ELSE str
      k == Cardinality({ n \in 1..Len(body) : \A i \in 1..n : IsDigit(body[i]) })
      v == DigitsValue(SubSeq(body, 1, k))
  IN [nan |-> FALSE, value |-> IF neg THEN 0 - v ELSE v]

\* parseInt(str): optional sign, then the longest prefix of digits; NaN when
\* there is none
parseInt(str) ==
  LET neg == Len(str) > 0 /\ str[1] = "-"
      body == IF neg THEN Tail(str) ELSE str
      k == Cardinality({ n \in 1..Len(body) : \A i \in 1..n : IsDigit(body[i]) })
      v == DigitsValue(SubSeq(body, 1, k))
  IN IF k = 0 THEN [nan |-> TRUE, value |-> 0]
     ELSE [nan |-> FALSE, value |-> IF neg THEN 0 - v ELSE v]

\* the answers of select('*').order('score', {ascending: false}) over rows t:
\* every order with scores descending (rows of equal score in any order)
RECURSIVE FetchOrders(_)
FetchOrders(t) ==
  IF t = {} THEN {<<>>}
  ELSE UNION { { <<r>> \o rest : rest \in FetchOrders(t \ {r}) } :
               r \in { q \in t : \A x \in t : x.score <= q.score } }

\* the rows a select on leaderboard_members by uid sees
VisibleMembers(t, uid) ==
  IF EveryoneCanViewLeaderboard(uid) THEN t ELSE {}

\* [...members].sort((a, b) => b.score - a.score): stable, scores descending
sortedMembers(members) ==
  LET n == Len(members)
      pos(i) == 1 + Cardinality({ j \in 1..n : members[j].score > members[i].score })
                  + Cardinality({ j \in 1..(i - 1) : members[j].score = members[i].score })
  IN [k \in 1..n |-> members[CHOOSE i \in 1..n : pos(i) = k]]

FetchHandler(name) == [name |-> name, at |-> "fetch", op |-> NoOp, members |-> <<>>]
PanelIdle == Cardinality(handlers) < MaxHandlers
PanelShown == ~panel_loading

\* the Add Member dialog is opened or cancelled
setIsAddDialogOpen(open) ==
  /\ PanelShown /\ isAddDialogOpen # open
  /\ isAddDialogOpen' = open
  /\ UNCHANGED <<panel_members, panel_loading, newMember, editingMember, handlers,
                 panel_toast, dbVars>>

\* onChange of the dialog's score field
setNewMember(raw) ==
  /\ PanelShown /\ isAddDialogOpen
  /\ newMember' = [score |-> InputNumberValue(raw)]
  /\ newMember' # newMember
  /\ UNCHANGED <<panel_members, panel_loading, editingMember, isAddDialogOpen, handlers,
                 panel_toast, dbVars>>

\* handleAddMember up to its first await: the score check, then the insert is sent
handleAddMember ==
  /\ PanelShown /\ isAddDialogOpen /\ PanelIdle
  /\ LET score == parseInt(newMember.score)
     IN IF score.nan
          THEN /\ panel_toast' = <<"Invalid Score">>
               /\ UNCHANGED handlers
          ELSE /\ handlers' = handlers \cup
                    {[name |-> "add", at |-> "insert",
                      op |-> [kind |-> "insert", id |-> 0, score |-> score.value,
                              rank |-> Len(panel_members) + 1],
                      members |-> panel_members]}
               /\ UNCHANGED panel_toast
  /\ UNCHANGED <<panel_members, panel_loading, newMember, editingMember, isAddDialogOpen,
                 dbVars>>

\* handleEditMember(member): the row's Edit button
handleEditMember(i) ==
  /\ PanelShown /\ i \in 1..Len(panel_members)
  /\ editingMember.id # panel_members[i].id
  /\ editingMember' = [id |-> panel_members[i].id, score |-> panel_members[i].score]
  /\ UNCHANGED <<panel_members, panel_loading, newMember, isAddDialogOpen, handlers,
                 panel_toast, dbVars>>

\* onChange of the row's score field: parseInt(e.target.value) || 0
setEditingMember(raw) ==
  /\ PanelShown /\ editingMember # NoEdit
  /\ LET v == parseInt(InputNumberValue(raw))
     IN editingMember' = [editingMember EXCEPT !.score = IF v.nan THEN 0 ELSE v.value]
  /\ editingMember' # editingMember
  /\ UNCHANGED <<panel_members, panel_loading, newMember, isAddDialogOpen, handlers,
                 panel_toast, dbVars>>

\* handleSaveEdit up to its await: the update is sent
handleSaveEdit ==
  /\ PanelShown /\ PanelIdle
  /\ editingMember # NoEdit
  /\ \E i \in 1..Len(panel_members) : panel_members[i].id = editingMember.id
  /\ handlers' = handlers \cup
       {[name |-> "save", at |-> "update",
         op |-> [kind |-> "update", id |-> editingMember.id, score |-> editingMember.score],
         members |-> panel_members]}
  /\ UNCHANGED <<panel_members, panel_loading, newMember, editingMember, isAddDialogOpen,
                 panel_toast, dbVars>>

\* handleDeleteMember(id) up to its await: the delete is sent
handleDeleteMember(i) ==
  /\ PanelShown /\ PanelIdle
  /\ i \in 1..Len(panel_members)
  /\ editingMember.id # panel_members[i].id
  /\ handlers' = handlers \cup
       {[name |-> "delete", at |-> "delete",
         op |-> [kind |-> "delete", id |-> panel_members[i].id],
         members |-> panel_members]}
  /\ UNCHANGED <<panel_members, panel_loading, newMember, editingMember, isAddDialogOpen,
                 panel_toast, dbVars>>

\* the notifications the catch block around a call shows; every catch block
\* also logs with console.error.  The catch of updateRanks logs and no more.
Catch(site) ==
  IF site = "updateRanks" THEN <<>> ELSE <<"Error">>

\* updateRanks at iteration i of its loop over sorted: the update of rank i
\* for sorted[i] is sent, or, past the end of the list, fetchMembers is called
updateRanks(name, sorted, i) ==
  IF i <= Len(sorted)
    THEN [name |-> name, at |-> "updateRanks",
          op |-> [kind |-> "rank", id |-> sorted[i].id, rank |-> i],
          members |-> sorted]
    ELSE [name |-> name, at |-> "fetch", op |-> NoOp, members |-> sorted]

\* the rest of a handler once "await updateRanks()" returns: the form state
\* is reset and the Success notification shown, after those in shown
HandlerCompletes(h, shown) ==
  /\ panel_toast' = shown \o <<"Success">>
  /\ newMember' = IF h.name = "add" THEN [score |-> <<>>] ELSE newMember
  /\ isAddDialogOpen' = IF h.name = "add" THEN FALSE ELSE isAddDialogOpen
  /\ editingMember' = IF h.name = "save" THEN NoEdit ELSE editingMember
  /\ handlers' = handlers \ {h}

\* the statement h awaits, with the id an insert's row is given
StatementOf(h) ==
  IF h.op.kind = "insert"
    THEN [h.op EXCEPT !.id = 1 + MaxOf({r.id : r \in leaderboard_members})]
    ELSE h.op

\* the insert / update / delete a handler awaits is answered with r.  An error
\* is thrown to the handler's catch (log and "Error" toast); otherwise the
\* handler goes on into updateRanks with the member list it was started with.
StatementStep(h, r) ==
  /\ h \in handlers /\ h.at \in {"insert", "update", "delete"}
  /\ leaderboard_members' = r.table
  /\ lastStmt' = [NoStmt EXCEPT !.tbl = "leaderboard_members", !.by = session,
                                !.op = h.op.kind, !.allowed = r.allowed,
                                !.committed = r.committed, !.fired = r.fired]
  /\ IF ~r.committed
       THEN /\ handlers' = handlers \ {h}
            /\ panel_toast' = Catch(h.name)
       ELSE /\ handlers' = (handlers \ {h}) \cup {updateRanks(h.name, sortedMembers(h.members), 1)}
            /\ UNCHANGED panel_toast
  /\ UNCHANGED <<panel_members, panel_loading, newMember, editingMember, isAddDialogOpen,
                 auth_users, profiles, user_roles>>

\* ... answered by the schema
StatementResolves(h) ==
  StatementStep(h, ExecMemberStmt(leaderboard_members, user_roles, session, StatementOf(h)))

\* the loop of updateRanks going on to its next update after an error
RankUpdateStep_goesOn(h, r) ==
  /\ h \in handlers /\ h.at = "updateRanks"
  /\ leaderboard_members' = r.table
  /\ lastStmt' = [NoStmt EXCEPT !.tbl = "leaderboard_members", !.by = session,
                                !.op = "rank", !.allowed = r.allowed,
                                !.committed = r.committed, !.fired = r.fired,
                                !.rows = {<<h.op.id, h.op.rank>>}]
  /\ handlers' = (handlers \ {h}) \cup {updateRanks(h.name, h.members, h.op.rank + 1)}
  /\ UNCHANGED <<panel_toast, newMember, isAddDialogOpen, editingMember>>
  /\ UNCHANGED <<panel_members, panel_loading, auth_users, profiles, user_roles>>

\* the rank update the loop of updateRanks awaits is answered with r.  An
\* error is thrown to the catch of updateRanks, which ends updateRanks; the
\* handler that awaited it then completes.
RankUpdateStep(h, r) ==
  /\ h \in handlers /\ h.at = "updateRanks"
  /\ leaderboard_members' = r.table
  /\ lastStmt' = [NoStmt EXCEPT !.tbl = "leaderboard_members", !.by = session,
                                !.op = "rank", !.allowed = r.allowed,
                                !.committed = r.committed, !.fired = r.fired,
                                !.rows = {<<h.op.id, h.op.rank>>}]
  /\ IF ~r.committed
       THEN HandlerCompletes(h, Catch("updateRanks"))
       ELSE /\ handlers' = (handlers \ {h}) \cup {updateRanks(h.name, h.members, h.op.rank + 1)}
            /\ UNCHANGED <<panel_toast, newMember, isAddDialogOpen, editingMember>>
  /\ UNCHANGED <<panel_members, panel_loading, auth_users, profiles, user_roles>>

\* ... answered by the schema.  StatementResolves never takes its branch into
\* updateRanks (the rank trigger aborts every statement), so under the schema
\* no handler comes to await this call.
RankUpdateResolves(h) ==
  RankUpdateStep(h, ExecMemberStmt(leaderboard_members, user_roles, session, h.op))

\* fetchMembers is answered: the rows in the order the database returned them,
\* or an error (log and "Error" toast); finally loading ends.  When it was
\* called by updateRanks, the handler that awaited updateRanks then completes.
fetchMembers(h, transport, data) ==
  /\ h \in handlers /\ h.at = "fetch"
  /\ data \in FetchOrders(VisibleMembers(leaderboard_members, session))
  /\ panel_members' = IF transport THEN panel_members ELSE data
  /\ panel_loading' = FALSE
  /\ IF h.name = "mount"
       THEN /\ panel_toast' = IF transport THEN Catch("fetchMembers") ELSE panel_toast
            /\ handlers' = handlers \ {h}
            /\ UNCHANGED <<newMember, editingMember, isAddDialogOpen>>
       ELSE HandlerCompletes(h, IF transport THEN Catch("fetchMembers") ELSE <<>>)
  /\ UNCHANGED dbVars

\* the "No Members Yet" block under the table
PanelEmptyState ==
  ~panel_loading /\ Len(panel_members) = 0

\* AdminPanel as it mounts: useEffect starts fetchMembers
PanelMounted ==
  /\ peer = NoOp
  /\ panel_members = <<>> /\ panel_loading = TRUE
  /\ newMember = [score |-> <<>>] /\ editingMember = NoEdit
  /\ isAddDialogOpen = FALSE /\ handlers = {FetchHandler("mount")}
  /\ panel_toast = <<>>

\* the page is left and opened again: a new AdminPanel mounts
PanelRemount ==
  /\ PanelShown /\ handlers = {}
  /\ panel_members' = <<>> /\ panel_loading' = TRUE
  /\ newMember' = [score |-> <<>>] /\ editingMember' = NoEdit
  /\ isAddDialogOpen' = FALSE /\ handlers' = {FetchHandler("mount")}
  /\ panel_toast' = <<>>
  /\ UNCHANGED dbVars

\* the gate as it is when it renders the panel for the session's user
GateShowsPanel ==
  /\ session \in auth_users
  /\ admin_user = session /\ admin_isAdmin = TRUE /\ admin_loading = FALSE
  /\ tasks = {} /\ lastAuthEvent = "NONE" /\ admin_toast = "none"

InitPanel ==
  /\ InitDatabase(DbTables) /\ auth_users = Users
  /\ session = 1 /\ \A u \in Users \ {session} : user_roles[<<u, "admin">>] = 0
  /\ GateShowsPanel /\ PanelMounted /\ IdleView

NextPanel ==
  \/ \E b \in BOOLEAN : setIsAddDialogOpen(b) /\ UNCHANGED <<gateVars, viewVars, peerVars>>
  \/ \E raw \in Strings : setNewMember(raw) /\ UNCHANGED <<gateVars, viewVars, peerVars>>
  \/ handleAddMember /\ UNCHANGED <<gateVars, viewVars, peerVars>>
  \/ \E i \in MemberIds : handleEditMember(i) /\ UNCHANGED <<gateVars, viewVars, peerVars>>
  \/ \E raw \in Strings : setEditingMember(raw) /\ UNCHANGED <<gateVars, viewVars, peerVars>>
  \/ handleSaveEdit /\ UNCHANGED <<gateVars, viewVars, peerVars>>
  \/ \E i \in MemberIds : handleDeleteMember(i) /\ UNCHANGED <<gateVars, viewVars, peerVars>>
  \/ \E h \in handlers :
       StatementResolves(h) /\ UNCHANGED <<gateVars, viewVars, peerVars>>
  \/ \E h \in handlers, tr \in BOOLEAN,
        data \in FetchOrders(VisibleMembers(leaderboard_members, session)) :
       fetchMembers(h, tr, data) /\ UNCHANGED <<gateVars, viewVars, peerVars>>
  \/ PanelRemount /\ UNCHANGED <<gateVars, viewVars, peerVars>>

SpecPanel == InitPanel /\ [][NextPanel]_vars

\* the panel used through its Add Member dialog only
NextAdd ==
  \/ \E b \in BOOLEAN : setIsAddDialogOpen(b) /\ UNCHANGED <<gateVars, viewVars, peerVars>>
  \/ \E raw \in Strings : setNewMember(raw) /\ UNCHANGED <<gateVars, viewVars, peerVars>>
  \/ handleAddMember /\ UNCHANGED <<gateVars, viewVars, peerVars>>
  \/ \E h \in handlers :
       StatementResolves(h) /\ UNCHANGED <<gateVars, viewVars, peerVars>>
  \/ \E h \in handlers, tr \in BOOLEAN,
        data \in FetchOrders(VisibleMembers(leaderboard_members, session)) :
       fetchMembers(h, tr, data) /\ UNCHANGED <<gateVars, viewVars, peerVars>>
  \/ PanelRemount /\ UNCHANGED <<gateVars, viewVars, peerVars>>

SpecAdd == InitPanel /\ [][NextAdd]_vars

\* ------------------------------------- AdminPanel against any backend

\* an answer to a statement on leaderboard_members that the panel's code
\* cannot tell from the schema's: an error (nothing changed), or no error
\* (the statement's row change made, the ranks recomputed once or not at all)
Answer(t, op, ok, recomputed) ==
  [committed |-> ok,
   table |-> IF ~ok THEN t
             ELSE IF recomputed THEN RankUpdate(ApplyMemberOp(t, op))
             ELSE ApplyMemberOp(t, op),
   allowed |-> ok, fired |-> IF ok /\ recomputed THEN 1 ELSE 0]

StatementAnswered(h, ok, recomputed) ==
  /\ (recomputed => ok)
  /\ StatementStep(h, Answer(leaderboard_members, StatementOf(h), ok, recomputed))

RankUpdateAnswered(h, ok, recomputed) ==
  /\ (recomputed => ok)
  /\ RankUpdateStep(h, Answer(leaderboard_members, h.op, ok, recomputed))

\* the tables the panel is opened on: rows 1..n, n up to DbRows + 1
ClientTables ==
  { TableOf(1..n, [i \in MemberIds |-> IF i <= MaxScore THEN i ELSE MaxScore],
            [i \in MemberIds |-> 0]) : n \in 0..(DbRows + 1) }

InitClient ==
  /\ InitDatabase(ClientTables) /\ auth_users = Users
  /\ session = 1 /\ \A u \in Users \ {session} : user_roles[<<u, "admin">>] = 0
  /\ GateShowsPanel /\ PanelMounted /\ IdleView

\* the row buttons (Edit, Save, Delete), used by an admin who waits for each
\* handler to end before the next click, and the answers to the calls
NextClient ==
  \/ \E i \in MemberIds :
       handlers = {} /\ handleEditMember(i) /\ UNCHANGED <<gateVars, viewVars, peerVars>>
  \/ handlers = {} /\ handleSaveEdit /\ UNCHANGED <<gateVars, viewVars, peerVars>>
  \/ \E i \in MemberIds :
       handlers = {} /\ handleDeleteMember(i) /\ UNCHANGED <<gateVars, viewVars, peerVars>>
  \/ \E h \in handlers, ok \in BOOLEAN, rc \in BOOLEAN :
       StatementAnswered(h, ok, rc) /\ UNCHANGED <<gateVars, viewVars, peerVars>>
  \/ \E h \in handlers, ok \in BOOLEAN, rc \in BOOLEAN :
       RankUpdateAnswered(h, ok, rc) /\ UNCHANGED <<gateVars, viewVars, peerVars>>
  \/ \E h \in handlers, tr \in BOOLEAN,
        data \in FetchOrders(VisibleMembers(leaderboard_members, session)) :
       fetchMembers(h, tr, data) /\ UNCHANGED <<gateVars, viewVars, peerVars>>

SpecClient == InitClient /\ [][NextClient]_vars

\* --------------------------------------------- two admins, two panels

\* the admin signed in on the second AdminPanel
PeerUser == NumUsers

\* a delete or edit-save handler starts on the second panel, on a row of the
\* list that panel loaded
PeerStarts(data, i, score) ==
  /\ peer = NoOp
  /\ data \in FetchOrders(VisibleMembers(leaderboard_members, PeerUser))
  /\ i \in 1..Len(data)
  /\ peer' = IF score = data[i].score
               THEN [name |-> "delete", at |-> "delete",
                     op |-> [kind |-> "delete", id |-> data[i].id], members |-> data]
               ELSE [name |-> "save", at |-> "update",
                     op |-> [kind |-> "update", id |-> data[i].id, score |-> score],
                     members |-> data]
  /\ UNCHANGED <<dbVars, panelVars>>

\* the statement the second panel's handler awaits is answered by the schema:
\* an error ends the handler in its catch block, otherwise it goes on into
\* updateRanks
PeerStatementResolves ==
  /\ peer # NoOp /\ peer.at \in {"insert", "update", "delete"}
  /\ LET r == ExecMemberStmt(leaderboard_members, user_roles, PeerUser, peer.op)
     IN /\ leaderboard_members' = r.table
        /\ lastStmt' = [NoStmt EXCEPT !.tbl = "leaderboard_members", !.by = PeerUser,
                                      !.op = peer.op.kind, !.allowed = r.allowed,
                                      !.committed = r.committed, !.fired = r.fired]
        /\ peer' = IF r.committed
                     THEN updateRanks(peer.name, sortedMembers(peer.members), 1)
                     ELSE NoOp
  /\ UNCHANGED <<auth_users, profiles, user_roles, panelVars>>

InitTwoAdmins ==
  /\ InitDatabase(DbTables) /\ auth_users = Users
  /\ session = 1
  /\ \A u \in Users : user_roles[<<u, "admin">>] = IF u \in {session, PeerUser} THEN 1 ELSE 0
  /\ GateShowsPanel /\ PanelMounted /\ IdleView

NextTwoAdmins ==
  \/ \E i \in MemberIds : handleEditMember(i) /\ UNCHANGED <<gateVars, viewVars, peerVars>>
  \/ handleSaveEdit /\ UNCHANGED <<gateVars, viewVars, peerVars>>
  \/ \E i \in MemberIds : handleDeleteMember(i) /\ UNCHANGED <<gateVars, viewVars, peerVars>>
  \/ \E h \in handlers :
       StatementResolves(h) /\ UNCHANGED <<gateVars, viewVars, peerVars>>
  \/ \E h \in handlers, tr \in BOOLEAN,
        data \in FetchOrders(VisibleMembers(leaderboard_members, session)) :
       fetchMembers(h, tr, data) /\ UNCHANGED <<gateVars, viewVars, peerVars>>
  \/ \E data \in FetchOrders(VisibleMembers(leaderboard_members, PeerUser)),
        i \in MemberIds, sc \in Scores :
       PeerStarts(data, i, sc) /\ UNCHANGED <<gateVars, viewVars>>
  \/ PeerStatementResolves /\ UNCHANGED <<gateVars, viewVars>>

SpecTwoAdmins == InitTwoAdmins /\ [][NextTwoAdmins]_vars

\* ------------------------------------------------------------ Leaderboard

PodiumSize == 3

\* the fetched rows set as they are, stored rank kept
rankedMembers_stored(data) ==
  data

\* rankedMembers: rank is the 1-based position in the fetched list
rankedMembers(data) ==
  [i \in 1..Len(data) |-> [data[i] EXCEPT !.rank = i]]

Min(a, b) == IF a < b THEN a ELSE b

\* members.slice(0, 3) and members.slice(3)
topThree == SubSeq(lb_members, 1, Min(PodiumSize, Len(lb_members)))
remaining == SubSeq(lb_members, PodiumSize + 1, Len(lb_members))

\* what the page shows as rank, top to bottom: PodiumCard shows its position
\* prop, LeaderboardRow shows member.rank
DisplayedRanks ==
  [k \in 1..Len(topThree) |-> [id |-> topThree[k].id, rank |-> k]]
  \o [j \in 1..Len(remaining) |-> [id |-> remaining[j].id, rank |-> remaining[j].rank]]

\* what the page renders below the header
LeaderboardRender ==
  [podium |-> Len(topThree) > 0, rankings |-> Len(remaining) > 0,
   empty |-> Len(lb_members) = 0]

\* fetchLeaderboard is answered
fetchLeaderboard(transport, data) ==
  /\ lb_loading
  /\ data \in FetchOrders(VisibleMembers(leaderboard_members, session))
  /\ IF transport
       THEN /\ UNCHANGED lb_members
            /\ lb_data' = NoData
       ELSE /\ lb_members' = rankedMembers(data)
            /\ lb_data' = [ok |-> TRUE, rows |-> {data[i] : i \in 1..Len(data)}, list |-> data]
  /\ lb_loading' = FALSE

\* the view is opened again: a new Leaderboard mounts and fetches
LeaderboardMount ==
  /\ ~lb_loading
  /\ lb_members' = <<>> /\ lb_loading' = TRUE /\ lb_data' = NoData

\* the tables the view is opened on: rows 1..n, any scores, and a stored
\* rank that was never written or is out of date
ViewTables ==
  { TableOf(1..n, sc, [i \in MemberIds |-> rk]) :
      n \in 0..MaxMembers, sc \in [MemberIds -> Scores], rk \in 0..MaxStoredRank }

InitView ==
  /\ InitDatabase(ViewTables) /\ auth_users = Users
  /\ \A u \in Users : user_roles[<<u, "admin">>] = 0
  /\ session \in auth_users \cup {NoUser}
  /\ admin_user = NoUser /\ admin_isAdmin = FALSE /\ admin_loading = TRUE
  /\ tasks = {} /\ lastAuthEvent = "NONE" /\ admin_toast = "none"
  /\ IdlePanel /\ IdleView

NextView ==
  \/ \E tr \in BOOLEAN, data \in FetchOrders(VisibleMembers(leaderboard_members, session)) :
       fetchLeaderboard(tr, data) /\ UNCHANGED <<dbVars, gateVars, panelVars, peerVars>>
  \/ LeaderboardMount /\ UNCHANGED <<dbVars, gateVars, panelVars, peerVars>>

SpecView == InitView /\ [][NextView]_vars

\* ============================================================== claims

\* ranks are exactly 1..N, a higher score has a smaller rank, and among equal
\* scores the row created earlier has the smaller rank
ProperRanks(t) ==
  /\ {r.rank : r \in t} = 1..Cardinality(t)
  /\ \A r \in t, q \in t :
       /\ r.score > q.score => r.rank < q.rank
       /\ (r.score = q.score /\ r.created_at < q.created_at) => r.rank < q.rank

C17_TriggerTerminates ==
  (lastStmt.tbl = "leaderboard_members" /\ (lastStmt.allowed \/ lastStmt.op # "insert"))
    => (lastStmt.committed /\ lastStmt.fired < MaxStackDepth)

\* C3: a step changes leaderboard_members or user_roles only when the
\* requesting identity has an admin row in user_roles before the step; the one
\* exception is a signup, which adds exactly the (new user, 'user') row.
C3_OnlyAdminsWrite ==
  [][ (leaderboard_members' # leaderboard_members \/ user_roles' # user_roles) =>
        \/ /\ lastStmt'.tbl \in {"user_roles", "leaderboard_members"}
           /\ has_role(user_roles, lastStmt'.by, "admin")
        \/ /\ lastStmt'.tbl = "auth.users"
           /\ leaderboard_members' = leaderboard_members
           /\ user_roles' = [user_roles EXCEPT ![<<lastStmt'.by, "user">>] = @ + 1] ]_vars

\* C3 witness: an authenticated user without the admin role asked for a write
\* on user_roles and was refused, while an admin row exists
C3_Witness ==
  /\ lastStmt.tbl = "user_roles" /\ lastStmt.op \in {"insert", "update", "delete"}
  /\ lastStmt.by \in auth_users /\ ~lastStmt.allowed
  /\ \E u \in Users : user_roles[<<u, "admin">>] > 0

\* C8: a signup step leaves exactly one profiles row, with role 'user', and
\* exactly one ('user') row and no 'admin' row in user_roles for the new
\* identity, changes no other user's rows, and every user then has exactly one
\* profile.
C8_SignupRows ==
  [][ auth_users' # auth_users =>
        \E u \in auth_users' \ auth_users :
          /\ auth_users' = auth_users \cup {u}
          /\ \A v \in auth_users' : Cardinality({p \in profiles' : p.id = v}) = 1
          /\ \A p \in profiles' : p.id = u => p.role = "user"
          /\ {p \in profiles' : p.id # u} = profiles
          /\ user_roles'[<<u, "user">>] = 1
          /\ user_roles'[<<u, "admin">>] = 0
          /\ \A ur \in Users \X Roles : ur[1] # u => user_roles'[ur] = user_roles[ur] ]_vars

\* C8 witness: a signup has just run and is not the first user
C8_Witness ==
  /\ lastStmt.tbl = "auth.users" /\ lastStmt.committed
  /\ Cardinality(auth_users) >= 2
  /\ user_roles[<<lastStmt.by, "user">>] = 1

\* C10 as stated: a select on user_roles by an authenticated identity returns
\* only rows of that identity.  Violated by an admin's select.
C10_SelectOnlyOwnRows ==
  (lastStmt.tbl = "user_roles" /\ lastStmt.op = "select" /\ lastStmt.by # NoUser)
    => \A ur \in lastStmt.rows : ur[1] = lastStmt.by

\* C10 amended: a select on user_roles by an authenticated identity that has
\* no admin row returns exactly the rows of that identity; a select by an
\* identity that has an admin row returns every row.
C10_SelectOwnRowsUnlessAdmin ==
  (lastStmt.tbl = "user_roles" /\ lastStmt.op = "select" /\ lastStmt.by # NoUser)
    => IF has_role(user_roles, lastStmt.by, "admin")
         THEN lastStmt.rows = {ur \in Users \X Roles : user_roles[ur] > 0}
         ELSE lastStmt.rows = {ur \in Users \X Roles : user_roles[ur] > 0 /\ ur[1] = lastStmt.by}

\* C10 witness: a user without the admin role selected, got rows, and rows of
\* another user exist
C10_Witness ==
  /\ lastStmt.tbl = "user_roles" /\ lastStmt.op = "select" /\ lastStmt.by # NoUser
  /\ ~has_role(user_roles, lastStmt.by, "admin")
  /\ lastStmt.rows # {}
  /\ \E ur \in Users \X Roles : user_roles[ur] > 0 /\ ur[1] # lastStmt.by

\* C11: an update of a profiles row by its owner never changes the row's role
\* column: every profile keeps, through every step, the role it has.
\* Violated: the update policy restricts neither the columns nor the new row,
\* so the owner's UPDATE can set role.
C11_OwnUpdateKeepsRole ==
  [][ \A p \in profiles, q \in profiles' : q.id = p.id => q.role = p.role ]_vars

\* C2: whenever the gate's user is set, has no admin row, and the page has
\* finished loading, the access-denied screen is rendered and never the admin
\* panel, whose handlers are what issues the writes on leaderboard_members.
\* Violated by a late answer of an admin-status query that was issued for
\* another user.
C2_NonAdminDenied ==
  (admin_user # NoUser /\ ~has_role(user_roles, admin_user, "admin") /\ ~admin_loading)
    => AdminRender = "denied"

\* C5: a step in which an admin-status query answers with an error, no row
\* or a rejected promise leaves isAdmin false; and isAdmin turns true only in
\* a step that delivers the row answer of a query, issued for a user who has
\* an admin row.
C5_AdminCheckFailsClosed ==
  [][ /\ \A t \in tasks, o \in {"norow", "error", "throw"} :
           AdminStatusResponse(t, o) => admin_isAdmin' = FALSE
      /\ (admin_isAdmin' /\ ~admin_isAdmin) =>
           \E t \in tasks :
             /\ AdminStatusResponse(t, "row")
             /\ has_role(user_roles, t.currentUser, "admin") ]_vars

\* C5 witness: every call has answered, the gate's user has an admin row, and
\* a failed admin-status query left them on the access-denied screen
C5_Witness ==
  /\ tasks = {} /\ admin_user # NoUser /\ session = admin_user
  /\ has_role(user_roles, admin_user, "admin")
  /\ admin_toast = "Access Denied" /\ AdminRender = "denied"

\* C9: after a SIGNED_OUT notification, until the next SIGNED_IN notification
\* or auth-form success, user is null, isAdmin is false and (once loading is
\* over) the login form is rendered.  Violated by answers of calls that were
\* started before the sign-out.
C9_SignedOutStays ==
  lastAuthEvent = "SIGNED_OUT"
    => (admin_user = NoUser /\ ~admin_isAdmin /\ (~admin_loading => AdminRender = "auth"))

\* the rows of a fetched list
RowsOf(list) == { list[i] : i \in 1..Len(list) }

C15_OneHandlerInFlight ==
  Cardinality({h \in handlers : h.name \in {"add", "save", "delete"}}) <= 1

C13_LoopStopsAtFailure ==
  [][ \A h \in handlers :
        RankUpdateAnswered(h, FALSE, FALSE) =>
          /\ leaderboard_members' = leaderboard_members
          /\ handlers' = handlers \ {h}
          /\ panel_members' = panel_members ]_vars

\* C13 witness: the loop has just stopped at a failed update that was not its
\* first, and the row of an earlier update is in the table
C13_Witness ==
  /\ lastStmt.op = "rank" /\ ~lastStmt.committed
  /\ \E w \in lastStmt.rows : w[2] >= 2
  /\ handlers = {} /\ leaderboard_members # {}
  /\ Len(panel_members) >= 2

\* the titles in a sequence of notifications
Titles(shown) == { shown[i] : i \in 1..Len(shown) }

\* C14: every step in which a call of the panel is answered with an error
\* (the member fetch, the insert / update / delete of a handler, an update of
\* the rank-rewrite loop) shows an Error notification.  Violated: the catch
\* block of updateRanks logs and shows nothing, and the handler goes on to
\* its Success notification.
C14_FailuresSurfaced ==
  [][ \A h \in handlers :
        ( \/ StatementAnswered(h, FALSE, FALSE)
          \/ RankUpdateAnswered(h, FALSE, FALSE)
          \/ \E data \in FetchOrders(VisibleMembers(leaderboard_members, session)) :
               fetchMembers(h, TRUE, data) )
        => "Error" \in Titles(panel_toast') ]_vars

\* the (id, rank) pairs the loop of updateRanks sends for the list sorted
RanksSent(sorted) ==
  { <<updateRanks("any", sorted, i).op.id, updateRanks("any", sorted, i).op.rank>> :
      i \in 1..Len(sorted) }

\* C18: for a handler that was started on an up-to-date list and awaits its
\* insert, update or delete, the (row, rank) pairs its rank-rewrite loop is
\* going to send are the pairs the trigger's UPDATE assigns over the table as
\* that statement leaves it.  Violated: the loop runs over the list as loaded
\* before the statement, and orders ties as fetched.
C18_ClientRanksAreTriggerRanks ==
  \A h \in handlers :
    (h.at \in {"insert", "update", "delete"} /\ RowsOf(h.members) = leaderboard_members)
      => RanksSent(sortedMembers(h.members))
           = { <<r.id, r.rank>> :
                 r \in RankUpdate(ApplyMemberOp(leaderboard_members, StatementOf(h))) }

C6_NonNumericRejected ==
  [][ (handleAddMember /\ ~ValidFloatingPoint(newMember.score)) =>
        /\ handlers' = handlers
        /\ lastStmt' = lastStmt
        /\ leaderboard_members' = leaderboard_members
        /\ panel_members' = panel_members
        /\ panel_toast' = <<"Invalid Score">> ]_vars

\* C6 witness: the dialog is open on a score field that is no number, the
\* table has rows, and the last Add was refused
C6_Witness ==
  /\ isAddDialogOpen /\ ~ValidFloatingPoint(newMember.score)
  /\ panel_toast = <<"Invalid Score">> /\ handlers = {}
  /\ panel_members # <<>> /\ lastStmt = NoStmt

\* C12: after a fetch of the view, the member at position i of the fetched
\* list (counted from 1) is shown i-th with rank i, whatever its stored rank:
\* the ranks shown, podium then remainder, are 1..N.
C12_DisplayRankIsPosition ==
  lb_data.ok =>
    /\ Len(DisplayedRanks) = Len(lb_data.list)
    /\ \A i \in 1..Len(lb_data.list) :
         DisplayedRanks[i] = [id |-> lb_data.list[i].id, rank |-> i]

\* C12 witness: a fetch returned more rows than the podium holds, and a row
\* of the remainder has a stored rank that is not its position
C12_Witness ==
  /\ lb_data.ok /\ Len(lb_data.list) > PodiumSize
  /\ \E i \in (PodiumSize + 1)..Len(lb_data.list) : lb_data.list[i].rank # i

\* C7: after a fetch of the view, podium and remainder share no member, hold
\* every fetched member exactly once, and their concatenation is ordered by
\* score descending, ties by creation time ascending.  Violated: the select
\* orders by score alone, so rows of equal score come in any order.
C7_PodiumRemainderOrdered ==
  lb_data.ok =>
    LET all == topThree \o remaining
    IN /\ \A i \in DOMAIN topThree, j \in DOMAIN remaining : topThree[i].id # remaining[j].id
       /\ Len(all) = Cardinality(lb_data.rows)
       /\ \A r \in lb_data.rows : Cardinality({k \in 1..Len(all) : all[k].id = r.id}) = 1
       /\ \A i \in 1..Len(all), j \in 1..Len(all) :
            i < j => \/ all[i].score > all[j].score
                     \/ (all[i].score = all[j].score /\ all[i].created_at < all[j].created_at)

====
